---- MODULE Spec2Model ----
(***************************************************************************)
(* Model of shcheck-web: the CSP evaluator                                 *)
(* (backend/src/services/csp-evaluator.service.ts), and the life of a scan *)
(* (executeScan, the worker and the queue of                               *)
(* backend/src/services/shcheck.service.ts, the scan routes).              *)
(*                                                                         *)
(* Representation of JavaScript strings.  A string is a sequence of        *)
(* symbols.  A symbol is either one separator character (";", " ", the     *)
(* tab "\t") or a word atom: an indivisible run of characters that holds   *)
(* no whitespace and no semicolon ("script-src", "'none'", "*").  Two      *)
(* adjacent word atoms are the concatenation of their texts.  The atoms    *)
(* are chosen so that no atom is a concatenation of others and no searched *)
(* substring spans two atoms; string equality is then sequence equality    *)
(* and s.includes(n) holds iff some atom of s contains n (Fragments).      *)
(* The empty string is <<>>.  A value that may be undefined is a sequence  *)
(* of length 0 (undefined) or 1 (the value).                               *)
(***************************************************************************)
EXTENDS Integers, Sequences, FiniteSets, TLC

VARIABLES policy, nAdded, pc, rawDirectives, polEval, headers, result

\* The scan of one id: its database row, its queue job, the worker, the
\* child process of executeScan, the routes and the Redis subscription
VARIABLES row, job, wpc, exec, dpc, getStatus, cpc, cgot, subscribed

cspVars == <<policy, nAdded, pc, rawDirectives, polEval, headers, result>>

scanVars == <<row, job, wpc, exec, dpc, getStatus, cpc, cgot, subscribed>>

vars == <<policy, nAdded, pc, rawDirectives, polEval, headers, result,
          row, job, wpc, exec, dpc, getStatus, cpc, cgot, subscribed>>

(***************************************************************************)
(* Bounds of the model.                                                    *)
(***************************************************************************)
MaxDirs == 2
MaxRawLen == 5

(***************************************************************************)
(* Characters and strings.                                                 *)
(***************************************************************************)
SEMI == ";"
SPACE == " "
TAB == "\t"

\* String.prototype.trim and the regex class \s: space and tab are whitespace
IsWhite(c) == c \in {SPACE, TAB}

\* String.prototype.toLowerCase on one symbol
LowerSym(c) ==
  CASE c \in {"Script-Src", "SCRIPT-SRC"} -> "script-src"
    [] c = "Default-Src" -> "default-src"
    [] c = "Frame-Ancestors" -> "frame-ancestors"
    [] c \in {"'nonce-Rw'", "'NONCE-RW'"} -> "'nonce-rw'"
    [] c = "'NONE'" -> "'none'"
    [] c \in {"Content-Security-Policy", "CONTENT-SECURITY-POLICY"} -> "content-security-policy"
    [] c = "Content-Security-Policy-Report-Only" -> "content-security-policy-report-only"
    [] c = "X-Frame-Options" -> "x-frame-options"
    [] OTHER -> c

\* String.prototype.toLowerCase
toLowerCase(s) == [i \in 1..Len(s) |-> LowerSym(s[i])]

\* The searched substrings that occur inside the text of one symbol
Fragments(c) ==
  CASE c = "'unsafe-inline'" -> {"'unsafe-inline'", "unsafe"}
    [] c = "'unsafe-eval'" -> {"'unsafe-eval'", "unsafe"}
    [] c = "'wasm-unsafe-eval'" -> {"'wasm-unsafe-eval'", "unsafe"}
    [] c = "'unsafe-hashes'" -> {"unsafe"}
    [] c \in {"'nonce-Rw'", "'nonce-rw'"} -> {"'nonce-"}
    [] c = "'sha256-Qz'" -> {"'sha256-"}
    [] c = "*" -> {"*"}
    [] c = "data:" -> {"data:"}
    [] c = "http:" -> {"http:"}
    [] c = "https://cdn.example.com" -> {"https:"}
    [] c = "https://*.example.com" -> {"https:", "*"}
    [] c = "https://ajax.googleapis.com" -> {"https:", "googleapis.com", "ajax.googleapis.com"}
    [] c = "https://unpkg.com" -> {"https:", "unpkg.com"}
    [] c = "https://www.gstatic.com" -> {"https:", "gstatic.com"}
    [] c = "https://cdnjs.cloudflare.com" -> {"https:", "cdnjs.cloudflare.com"}
    [] c = "'none'" -> {"'none'"}
    [] c = "'self'" -> {"'self'"}
    [] c = "'strict-dynamic'" -> {"'strict-dynamic'"}
    [] c = "upgrade-insecure-requests" -> {"upgrade-insecure-requests"}
    [] c = "frame-ancestors" -> {"frame-ancestors"}
    [] c = "form-action" -> {"form-action"}
    [] c = "report-uri" -> {"report-uri"}
    [] c = "report-to" -> {"report-to"}
    [] OTHER -> {}

\* String.prototype.includes
includes(s, needle) == \E i \in 1..Len(s) : needle \in Fragments(s[i])

\* String.prototype.indexOf for a one-character needle; 0 stands for -1
indexOf(s, c) ==
  IF \E i \in 1..Len(s) : s[i] = c
    THEN CHOOSE i \in 1..Len(s) : s[i] = c /\ \A j \in 1..(i - 1) : s[j] # c
    ELSE 0

\* String.prototype.trim
trim(s) ==
  IF \A i \in 1..Len(s) : IsWhite(s[i])
    THEN <<>>
    ELSE LET first == CHOOSE i \in 1..Len(s) :
                        ~IsWhite(s[i]) /\ \A j \in 1..(i - 1) : IsWhite(s[j])
             last == CHOOSE i \in 1..Len(s) :
                        ~IsWhite(s[i]) /\ \A j \in (i + 1)..Len(s) : IsWhite(s[j])
         IN SubSeq(s, first, last)

\* String.prototype.split on one separator character
RECURSIVE split(_, _)
split(s, c) ==
  LET i == indexOf(s, c)
  IN IF i = 0 THEN <<s>>
     ELSE <<SubSeq(s, 1, i - 1)>> \o split(SubSeq(s, i + 1, Len(s)), c)

\* value.split(/\s+/).filter(Boolean): the maximal runs of non-whitespace
RECURSIVE splitWhitespace(_)
splitWhitespace(s) ==
  LET t == trim(s)
  IN IF t = <<>> THEN <<>>
     ELSE LET ws == {i \in 1..Len(t) : IsWhite(t[i])}
          IN IF ws = {} THEN <<t>>
             ELSE LET i == CHOOSE k \in ws : \A j \in ws : k <= j
                  IN <<SubSeq(t, 1, i - 1)>> \o splitWhitespace(SubSeq(t, i + 1, Len(t)))

\* Array.prototype.filter(Boolean) on an array of strings
RECURSIVE filterNonEmpty(_)
filterNonEmpty(a) ==
  IF a = <<>> THEN <<>>
  ELSE (IF Head(a) = <<>> THEN <<>> ELSE <<Head(a)>>) \o filterNonEmpty(Tail(a))

(***************************************************************************)
(* Record<string, string>: the own string keys in insertion order, each    *)
(* with its value.                                                         *)
(***************************************************************************)
hasKey(d, k) == \E i \in 1..Len(d) : d[i].name = k

\* d[k]: the value as an optional (<<>> is undefined)
get(d, k) ==
  IF hasKey(d, k)
    THEN <<d[CHOOSE i \in 1..Len(d) : d[i].name = k].value>>
    ELSE <<>>

\* Mutant: an existing key keeps its first value
set_keepFirst(d, k, v) ==
  IF hasKey(d, k) THEN d ELSE Append(d, [name |-> k, value |-> v])

\* d[k] = v: an existing key keeps its place, a new key goes last
set(d, k, v) ==
  IF hasKey(d, k)
    THEN [i \in 1..Len(d) |-> IF d[i].name = k THEN [name |-> k, value |-> v] ELSE d[i]]
    ELSE Append(d, [name |-> k, value |-> v])

\* JavaScript truthiness of an optional string: defined and not ''
truthy(o) == o # <<>> /\ o[1] # <<>>

\* o || '' for an optional string
orEmpty(o) == IF truthy(o) THEN o[1] ELSE <<>>

(***************************************************************************)
(* CSPEvaluator.parsePolicy                                                *)
(***************************************************************************)
\* Mutant: the directive name is stored as written
parsePart_noLower(directives, part) ==
  LET spaceIndex == indexOf(part, SPACE)
  IN IF spaceIndex = 0
       THEN set(directives, part, <<>>)
       ELSE set(directives,
                SubSeq(part, 1, spaceIndex - 1),
                trim(SubSeq(part, spaceIndex + 1, Len(part))))

parsePart(directives, part) ==
  LET spaceIndex == indexOf(part, SPACE)
  IN IF spaceIndex = 0
       THEN set(directives, toLowerCase(part), <<>>)
       ELSE set(directives,
                toLowerCase(SubSeq(part, 1, spaceIndex - 1)),
                trim(SubSeq(part, spaceIndex + 1, Len(part))))

RECURSIVE parseParts(_, _)
parseParts(directives, parts) ==
  IF parts = <<>> THEN directives
  ELSE parseParts(parsePart(directives, Head(parts)), Tail(parts))

\* Mutant: the empty segments are not discarded
parsePolicy_noFilter(p) ==
  LET segs == split(p, SEMI)
  IN parseParts(<<>>, [i \in 1..Len(segs) |-> trim(segs[i])])

parsePolicy(p) ==
  LET segs == split(p, SEMI)
      parts == filterNonEmpty([i \in 1..Len(segs) |-> trim(segs[i])])
  IN parseParts(<<>>, parts)

(***************************************************************************)
(* The static tables.                                                      *)
(***************************************************************************)
\* CSP_DIRECTIVES[name]?.category || 'other'
directiveCategory(name) ==
  IF Len(name) # 1 THEN "other"
  ELSE CASE name[1] \in {"default-src", "script-src", "style-src", "img-src",
                         "connect-src", "font-src", "object-src", "media-src",
                         "frame-src", "worker-src", "manifest-src"} -> "fetch"
         [] name[1] \in {"base-uri", "sandbox"} -> "document"
         [] name[1] \in {"form-action", "frame-ancestors"} -> "navigation"
         [] name[1] \in {"report-uri", "report-to"} -> "reporting"
         [] OTHER -> "other"

\* Each pattern is the set of alternative texts its regular expression matches
INSECURE_SOURCES == <<
  [pattern |-> {"'unsafe-inline'"}, name |-> "'unsafe-inline'",
   risk |-> "Allows inline scripts/styles - XSS risk"],
  [pattern |-> {"'unsafe-eval'"}, name |-> "'unsafe-eval'",
   risk |-> "Allows eval() and similar - XSS risk"],
  [pattern |-> {"'wasm-unsafe-eval'"}, name |-> "'wasm-unsafe-eval'",
   risk |-> "Allows WebAssembly compilation"],
  [pattern |-> {"data:"}, name |-> "data:",
   risk |-> "Allows data: URLs - XSS risk in some contexts"],
  [pattern |-> {"blob:"}, name |-> "blob:",
   risk |-> "Allows blob: URLs - potential security concern"],
  [pattern |-> {"javascript:"}, name |-> "javascript:",
   risk |-> "JavaScript protocol handlers - XSS risk"],
  [pattern |-> {"*"}, name |-> "'*' (wildcard)",
   risk |-> "Allows any source - completely bypasses CSP"],
  [pattern |-> {"http:", "https:"}, name |-> "http: (without TLS)",
   risk |-> "Allows unencrypted HTTP connections"] >>

\* RegExp.prototype.test of an unanchored pattern
test(pattern, s) == \E n \in pattern : includes(s, n)

\* The entries of INSECURE_SOURCES whose pattern matches the source, in table order
insecureMatches(source) ==
  SelectSeq(INSECURE_SOURCES, LAMBDA insecure : test(insecure.pattern, source))

RECURSIVE concatAll(_)
concatAll(ss) == IF ss = <<>> THEN <<>> ELSE Head(ss) \o concatAll(Tail(ss))

\* Array.prototype.includes
arrayIncludes(a, x) == \E i \in 1..Len(a) : a[i] = x

NONE == <<"'none'">>

(***************************************************************************)
(* CSPEvaluator.evaluateDirective                                          *)
(***************************************************************************)
\* Mutant: the check that the source list is not empty is left out
isSecureSources_emptyOk(sources) ==
  \/ arrayIncludes(sources, NONE)
  \/ ~\E k \in 1..Len(sources) :
        \E i \in 1..Len(INSECURE_SOURCES) : test(INSECURE_SOURCES[i].pattern, sources[k])

isSecureSources(sources) ==
  \/ arrayIncludes(sources, NONE)
  \/ /\ ~\E k \in 1..Len(sources) :
           \E i \in 1..Len(INSECURE_SOURCES) : test(INSECURE_SOURCES[i].pattern, sources[k])
     /\ Len(sources) > 0

\* The warnings of one source: one per matching pattern, in table order
warningsOf(matches) ==
  [j \in 1..Len(matches) |-> <<matches[j].name, " detected: ", matches[j].risk>>]

\* The DirectiveEvaluation of a directive with the tokenised source list
directiveEvaluation(name, value, sources) ==
  [name |-> name,
   value |-> value,
   sources |-> sources,
   isSecure |-> isSecureSources(sources),
   warnings |-> concatAll([k \in 1..Len(sources) |-> warningsOf(insecureMatches(sources[k]))]),
   category |-> directiveCategory(toLowerCase(name))]

evaluateDirective(name, value) == directiveEvaluation(name, value, splitWhitespace(value))

(***************************************************************************)
(* CSPEvaluator.calculateScore                                             *)
(***************************************************************************)
RECURSIVE sumSeq(_)
sumSeq(a) == IF a = <<>> THEN 0 ELSE Head(a) + sumSeq(Tail(a))

\* "Points for recommended directives" and "Points for security directives"
presencePoints(raw) ==
  sumSeq([i \in 1..5 |->
     IF truthy(get(raw, <<(<<"default-src", "script-src", "style-src", "img-src",
                            "connect-src">>)[i]>>)) THEN 6 ELSE 0])
  + (IF truthy(get(raw, <<"object-src">>)) THEN 10 ELSE 0)
  + (IF truthy(get(raw, <<"base-uri">>)) THEN 10 ELSE 0)
  + (IF truthy(get(raw, <<"frame-ancestors">>)) THEN 10 ELSE 0)

\* Mutant: the two bonuses are tested by two separate ifs
safeConfigPoints_bothIfs(dir) ==
  (IF dir.isSecure /\ arrayIncludes(dir.sources, NONE) THEN 5 ELSE 0)
  + (IF dir.isSecure
        /\ ~\E k \in 1..Len(dir.sources) : includes(dir.sources[k], "unsafe") THEN 3 ELSE 0)

\* "Points for safe configurations": the bonus of one DirectiveEvaluation
safeConfigPoints(dir) ==
  IF dir.isSecure /\ arrayIncludes(dir.sources, NONE) THEN 5
  ELSE IF dir.isSecure
          /\ ~\E k \in 1..Len(dir.sources) : includes(dir.sources[k], "unsafe") THEN 3
  ELSE 0

\* const scriptSrc = rawDirectives['script-src'] || rawDirectives['default-src'] || ''
effectiveScriptSrc(raw) ==
  IF truthy(get(raw, <<"script-src">>)) THEN get(raw, <<"script-src">>)[1]
  ELSE orEmpty(get(raw, <<"default-src">>))

\* "Deductions for critical issues", for the script source they are computed against
deductionsFor(scriptSrc) ==
  (IF /\ includes(scriptSrc, "'unsafe-inline'")
      /\ ~includes(scriptSrc, "'nonce-")
      /\ ~includes(scriptSrc, "'sha256-") THEN 20 ELSE 0)
  + (IF includes(scriptSrc, "'unsafe-eval'") THEN 15 ELSE 0)
  + (IF includes(scriptSrc, "*") THEN 25 ELSE 0)

deductions(raw) == deductionsFor(effectiveScriptSrc(raw))

\* The running total before the final clamp
runningScore(directives, raw) ==
  10 + presencePoints(raw)
     + sumSeq([i \in 1..Len(directives) |-> safeConfigPoints(directives[i])])
     - deductions(raw)

Min(a, b) == IF a <= b THEN a ELSE b
Max(a, b) == IF a >= b THEN a ELSE b

\* Mutant: the final clamp is left out
calculateScore_noClamp(directives, raw) == runningScore(directives, raw)

calculateScore(directives, raw) == Max(0, Min(100, runningScore(directives, raw)))

(***************************************************************************)
(* KNOWN_BYPASSES and CSPEvaluator.detectBypasses                          *)
(***************************************************************************)
KNOWN_BYPASSES(d) == <<
  [name |-> "JSONP Bypass",
   condition |-> LET scriptSrc == effectiveScriptSrc(d)
                 IN \/ includes(scriptSrc, "googleapis.com")
                    \/ includes(scriptSrc, "ajax.googleapis.com")
                    \/ includes(scriptSrc, "gstatic.com"),
   description |-> "Whitelisted Google domains can be used for JSONP-based CSP bypass"],
  [name |-> "Angular Template Injection",
   condition |-> LET scriptSrc == orEmpty(get(d, <<"script-src">>))
                 IN \/ includes(scriptSrc, "cdnjs.cloudflare.com")
                    \/ includes(scriptSrc, "unpkg.com"),
   description |-> "CDNs may host vulnerable Angular versions that enable CSP bypass"],
  [name |-> "object-src Missing",
   condition |-> LET defaultSrc == orEmpty(get(d, <<"default-src">>))
                 IN /\ ~truthy(get(d, <<"object-src">>))
                    /\ (defaultSrc = <<>> \/ includes(defaultSrc, "'none'")),
   description |-> "Missing object-src allows plugin execution via data: or other sources"],
  [name |-> "base-uri Missing",
   condition |-> ~truthy(get(d, <<"base-uri">>)),
   description |-> "Missing base-uri allows attackers to change base URL, potentially hijacking relative URLs"],
  [name |-> "strict-dynamic with unsafe-inline",
   condition |-> LET scriptSrc == orEmpty(get(d, <<"script-src">>))
                 IN /\ includes(scriptSrc, "'strict-dynamic'")
                    /\ includes(scriptSrc, "'unsafe-inline'"),
   description |-> "'strict-dynamic' ignores 'unsafe-inline' in modern browsers, but fallback may allow inline scripts"] >>

\* The formatted entries of the table rows whose condition holds, in table order
formatBypasses(table) ==
  LET hit == SelectSeq(table, LAMBDA b : b.condition)
  IN [k \in 1..Len(hit) |-> <<hit[k].name, ": ", hit[k].description>>]

\* Mutant: the loop stops at the first bypass it finds
detectBypasses_stopAtFirst(raw) ==
  LET all == formatBypasses(KNOWN_BYPASSES(raw))
  IN IF all = <<>> THEN <<>> ELSE <<Head(all)>>

detectBypasses(raw) == formatBypasses(KNOWN_BYPASSES(raw))

(***************************************************************************)
(* CSPEvaluator.detectFrameworks                                           *)
(***************************************************************************)
\* Mutant: an absent directive counts as containing the token
optIncludes_absentOk(raw, d, x) == get(raw, d) = <<>> \/ includes(get(raw, d)[1], x)

\* rawDirectives[d]?.includes(x): false when the directive is absent
optIncludes(raw, d, x) == get(raw, d) # <<>> /\ includes(get(raw, d)[1], x)

detectFrameworks(raw) ==
  LET reactDirectives == << <<"script-src">>, <<"style-src">> >>
      angularDirectives == << <<"script-src">> >>
      vueDirectives == << <<"script-src">>, <<"style-src">> >>
  IN << [framework |-> "React",
         detected |-> \A i \in 1..Len(reactDirectives) :
                         \/ optIncludes(raw, reactDirectives[i], "'nonce-")
                         \/ optIncludes(raw, reactDirectives[i], "'unsafe-inline'"),
         requiredDirectives |-> reactDirectives],
        [framework |-> "Angular",
         detected |-> \A i \in 1..Len(angularDirectives) :
                         \/ optIncludes(raw, angularDirectives[i], "'self'")
                         \/ optIncludes(raw, angularDirectives[i], "'unsafe-eval'"),
         requiredDirectives |-> angularDirectives],
        [framework |-> "Vue.js",
         detected |-> \A i \in 1..Len(vueDirectives) :
                         \/ optIncludes(raw, vueDirectives[i], "'self'")
                         \/ optIncludes(raw, vueDirectives[i], "'unsafe-eval'"),
         requiredDirectives |-> vueDirectives] >>

(***************************************************************************)
(* CSPEvaluator.evaluatePolicy                                             *)
(***************************************************************************)
\* The findings of one evaluated directive: its warnings, then the success
directiveFindings(evaluation) ==
  [j \in 1..Len(evaluation.warnings) |->
     [type |-> "warning", severity |-> "medium", message |-> evaluation.warnings[j],
      directive |-> <<evaluation.name>>, recommendation |-> <<>>]]
  \o (IF evaluation.isSecure /\ arrayIncludes(evaluation.sources, NONE)
        THEN << [type |-> "success", severity |-> "info",
                 message |-> evaluation.name \o <<" is properly restricted">>,
                 directive |-> <<evaluation.name>>, recommendation |-> <<>>] >>
        ELSE <<>>)

criticalDirectives == << <<"default-src">>, <<"script-src">>, <<"object-src">>, <<"base-uri">> >>

\* The critical directives that are falsy in the raw directive map
missingOf(raw) == SelectSeq(criticalDirectives, LAMBDA dir : ~truthy(get(raw, dir)))

missingFinding(dir) ==
  [type |-> "warning",
   severity |-> IF dir = <<"default-src">> \/ dir = <<"script-src">> THEN "high" ELSE "medium",
   message |-> <<"Missing ">> \o dir \o <<" directive">>,
   directive |-> <<>>,
   recommendation |-> << <<"Add ">> \o dir \o <<" directive to improve security">> >>]

bypassFinding(bypass) ==
  [type |-> "warning", severity |-> "medium", message |-> bypass,
   directive |-> <<>>, recommendation |-> <<>>]

\* Mutant: every item of b is appended, held already or not
appendNew_always(a, b) == a \o b

\* Appends the items of b that a does not hold yet, in order
RECURSIVE appendNew(_, _)
appendNew(a, b) ==
  IF b = <<>> THEN a
  ELSE appendNew(IF arrayIncludes(a, Head(b)) THEN a ELSE Append(a, Head(b)), Tail(b))

\* "Calculate unsafe sources"
labelsOf(matches) == [j \in 1..Len(matches) |-> <<matches[j].name>>]

unsafeSourcesOf(directives) ==
  appendNew(<<>>,
    concatAll([i \in 1..Len(directives) |->
       concatAll([k \in 1..Len(directives[i].sources) |->
          labelsOf(insecureMatches(directives[i].sources[k]))])]))

\* Mutant: the thresholds are compared strictly
effectivenessOf_strict(score) ==
  IF score > 80 THEN "strong"
  ELSE IF score > 50 THEN "moderate"
  ELSE "weak"

effectivenessOf(score) ==
  IF score >= 80 THEN "strong"
  ELSE IF score >= 50 THEN "moderate"
  ELSE "weak"

\* Mutant: the bypasses are reported before the missing directives
findingsOf_bypassesFirst(directives, missingDirectives, bypasses) ==
  concatAll([i \in 1..Len(directives) |-> directiveFindings(directives[i])])
  \o [i \in 1..Len(bypasses) |-> bypassFinding(bypasses[i])]
  \o [i \in 1..Len(missingDirectives) |-> missingFinding(missingDirectives[i])]

\* The findings in the order they are pushed
findingsOf(directives, missingDirectives, bypasses) ==
  concatAll([i \in 1..Len(directives) |-> directiveFindings(directives[i])])
  \o [i \in 1..Len(missingDirectives) |-> missingFinding(missingDirectives[i])]
  \o [i \in 1..Len(bypasses) |-> bypassFinding(bypasses[i])]

\* The returned PolicyEvaluation
policyEvaluation(p, directives, findings, score, missingDirectives, bypasses) ==
  [policy |-> p,
   directives |-> directives,
   findings |-> findings,
   score |-> score,
   effectiveness |-> effectivenessOf(score),
   missingDirectives |-> missingDirectives,
   unsafeSources |-> unsafeSourcesOf(directives),
   bypasses |-> bypasses]

\* evaluatePolicy from the evaluated directives on
evaluateDirectives(p, raw, directives, missingDirectives, bypasses) ==
  policyEvaluation(p, directives, findingsOf(directives, missingDirectives, bypasses),
                   calculateScore(directives, raw), missingDirectives, bypasses)

\* evaluatePolicy from the parsed directive map on
evaluateParsed(p, raw) ==
  evaluateDirectives(p, raw,
                     [i \in 1..Len(raw) |-> evaluateDirective(raw[i].name, raw[i].value)],
                     missingOf(raw), detectBypasses(raw))

evaluatePolicy(p) == evaluateParsed(p, parsePolicy(p))

(***************************************************************************)
(* CSPEvaluator.evaluate and CSPEvaluator.generateRecommendations          *)
(***************************************************************************)
\* headerEntries.find(([k]) => k.toLowerCase() === lower)?.[1]
findHeader(hs, lower) ==
  LET hit == {i \in 1..Len(hs) : toLowerCase(hs[i].name) = lower}
  IN IF hit = {} THEN <<>>
     ELSE <<hs[CHOOSE i \in hit : \A j \in hit : i <= j].value>>

\* The capture of /<word>\s+([^;]+)/ when the match starts at the atom s[i]:
\* the whitespace run is greedy and gives one character back when nothing
\* but ';' or the end of the string follows it
captureAt(s, i) ==
  LET n == Len(s)
      nonWhite == {j \in (i + 1)..n : ~IsWhite(s[j])}
      j == IF nonWhite = {} THEN n + 1 ELSE CHOOSE x \in nonWhite : \A y \in nonWhite : x <= y
      w == j - i - 1
      semis == {k \in j..n : s[k] = SEMI}
      stop == IF semis = {} THEN n + 1 ELSE CHOOSE x \in semis : \A y \in semis : x <= y
  IN IF w = 0 THEN <<>>
     ELSE IF j <= n /\ s[j] # SEMI THEN <<SubSeq(s, j, stop - 1)>>
     ELSE IF w >= 2 THEN <<SubSeq(s, j - 1, j - 1)>>
     ELSE <<>>

\* s.match(/<word>\s+([^;]+)/)?.[1]?.trim()
matchDirective(s, word) ==
  LET hit == {i \in 1..Len(s) : s[i] = word /\ captureAt(s, i) # <<>>}
  IN IF hit = {} THEN <<>>
     ELSE <<trim(captureAt(s, CHOOSE i \in hit : \A j \in hit : i <= j)[1])>>

Rec(text) == <<text>>

\* The rules of generateRecommendations for an enforced policy, in order
policyRecommendations(evaluation) ==
  (IF evaluation.score < 50
     THEN <<Rec("CSP policy is weak - avoid using unsafe-inline and wildcards")>> ELSE <<>>)
  \o (IF arrayIncludes(evaluation.missingDirectives, <<"default-src">>)
     THEN <<Rec("Add default-src directive as a fallback for unspecified resource types")>>
     ELSE <<>>)
  \o (IF arrayIncludes(evaluation.missingDirectives, <<"script-src">>)
     THEN <<Rec("Add script-src directive to control JavaScript execution")>> ELSE <<>>)
  \o (IF arrayIncludes(evaluation.missingDirectives, <<"object-src">>)
     THEN <<Rec("Add object-src 'none' to prevent plugin-based attacks")>> ELSE <<>>)
  \o (IF arrayIncludes(evaluation.missingDirectives, <<"base-uri">>)
     THEN <<Rec("Add base-uri directive to prevent base tag hijacking")>> ELSE <<>>)
  \o (IF /\ arrayIncludes(evaluation.unsafeSources, <<"'unsafe-inline'">>)
         /\ ~includes(evaluation.policy, "'nonce-")
     THEN <<Rec("Replace 'unsafe-inline' with nonce-based or hash-based CSP")>> ELSE <<>>)
  \o (IF ~includes(evaluation.policy, "upgrade-insecure-requests")
     THEN <<Rec("Consider adding upgrade-insecure-requests for HTTPS migration")>> ELSE <<>>)
  \o (IF ~includes(evaluation.policy, "frame-ancestors")
     THEN <<Rec("Add frame-ancestors directive to prevent clickjacking")>> ELSE <<>>)
  \o (IF ~includes(evaluation.policy, "form-action")
     THEN <<Rec("Add form-action directive to restrict form submissions")>> ELSE <<>>)

\* Mutant: the early return is taken when either header is missing
generateRecommendations_eitherMissing(res, cspHeader, cspReportOnly) ==
  IF ~truthy(cspHeader) \/ ~truthy(cspReportOnly)
    THEN [res EXCEPT
            !.recommendations = @ \o
               <<Rec("Implement a Content-Security-Policy header to prevent XSS attacks"),
                 Rec("Start with report-only mode: Content-Security-Policy-Report-Only")>>,
            !.overallEffectiveness = "none"]
  ELSE [res EXCEPT !.recommendations = @ \o policyRecommendations(res.headers.csp[1])]

\* The result after generateRecommendations(result, cspHeader, cspReportOnly)
generateRecommendations(res, cspHeader, cspReportOnly) ==
  IF ~truthy(cspHeader) /\ ~truthy(cspReportOnly)
    THEN [res EXCEPT
            !.recommendations = @ \o
               <<Rec("Implement a Content-Security-Policy header to prevent XSS attacks"),
                 Rec("Start with report-only mode: Content-Security-Policy-Report-Only")>>,
            !.overallEffectiveness = "none"]
  ELSE IF truthy(cspHeader)
    THEN [res EXCEPT !.recommendations = @ \o policyRecommendations(res.headers.csp[1])]
  ELSE res

emptyEvaluation ==
  [headers |-> [csp |-> <<>>, reportOnly |-> <<>>],
   overallScore |-> 0,
   overallEffectiveness |-> "none",
   recommendations |-> <<>>,
   bypassTechniques |-> <<>>,
   frameworkCompatibility |-> <<>>]

\* Mutant: the bypass list of the enforced evaluation is not copied
withPolicy_noBypasses(res, ev, frameworks) ==
  [res EXCEPT !.headers.csp = <<ev>>,
              !.overallScore = ev.score,
              !.overallEffectiveness = ev.effectiveness,
              !.frameworkCompatibility = frameworks]

\* "Evaluate main CSP policy", given the PolicyEvaluation of the header
withPolicy(res, ev, frameworks) ==
  [res EXCEPT !.headers.csp = <<ev>>,
              !.overallScore = ev.score,
              !.overallEffectiveness = ev.effectiveness,
              !.bypassTechniques = ev.bypasses,
              !.frameworkCompatibility = frameworks]

evaluateMain(res, cspHeader) ==
  IF truthy(cspHeader)
    THEN withPolicy(res, evaluatePolicy(cspHeader[1]), detectFrameworks(parsePolicy(cspHeader[1])))
    ELSE res

\* Mutant: the recommendation to enforce is pushed outside the report-only branch
evaluateReportOnly_pushOutside(res, cspHeader, cspReportOnly) ==
  [res EXCEPT
     !.headers.reportOnly =
        IF truthy(cspReportOnly)
          THEN << [reportOnly |-> TRUE,
                   reportUri |-> matchDirective(cspReportOnly[1], "report-uri"),
                   reportTo |-> matchDirective(cspReportOnly[1], "report-to")] >>
          ELSE @,
     !.recommendations =
        IF ~truthy(cspHeader)
          THEN Append(@, Rec("Consider enforcing CSP in addition to report-only mode"))
          ELSE @]

\* "Evaluate report-only policy"
evaluateReportOnly(res, cspHeader, cspReportOnly) ==
  IF truthy(cspReportOnly)
    THEN [res EXCEPT
            !.headers.reportOnly =
               << [reportOnly |-> TRUE,
                   reportUri |-> matchDirective(cspReportOnly[1], "report-uri"),
                   reportTo |-> matchDirective(cspReportOnly[1], "report-to")] >>,
            !.recommendations =
               IF ~truthy(cspHeader)
                 THEN Append(@, Rec("Consider enforcing CSP in addition to report-only mode"))
                 ELSE @]
    ELSE res

\* evaluate once the two header values are found
evaluateFound(cspHeader, cspReportOnly) ==
  generateRecommendations(
    evaluateReportOnly(evaluateMain(emptyEvaluation, cspHeader), cspHeader, cspReportOnly),
    cspHeader, cspReportOnly)

evaluate(hs) ==
  evaluateFound(findHeader(hs, <<"content-security-policy">>),
                findHeader(hs, <<"content-security-policy-report-only">>))

(***************************************************************************)
(* ShcheckService.parseOutput: the present headers of the scan result and  *)
(* the cspEvaluation it attaches to them                                   *)
(***************************************************************************)
\* presentKeys.some(k => k.toLowerCase() === lower)
someKey(present, lower) == \E i \in 1..Len(present) : toLowerCase(present[i].name) = lower

parseOutput(present) ==
  LET hasCSP == someKey(present, <<"content-security-policy">>)
      hasCSPReportOnly == someKey(present, <<"content-security-policy-report-only">>)
  IN [present |-> present,
      cspEvaluation |-> IF hasCSP \/ hasCSPReportOnly THEN <<evaluate(present)>> ELSE <<>>]

(***************************************************************************)
(* The inputs.                                                             *)
(***************************************************************************)
\* The policy of the "full strong-policy scenario"
StrongPolicy ==
  <<"default-src", SPACE, "'none'", SEMI, SPACE, "script-src", SPACE, "'self'", SEMI, SPACE,
    "style-src", SPACE, "'self'", SEMI, SPACE, "img-src", SPACE, "'self'", SEMI, SPACE,
    "connect-src", SPACE, "'self'", SEMI, SPACE, "object-src", SPACE, "'none'", SEMI, SPACE,
    "base-uri", SPACE, "'self'", SEMI, SPACE, "frame-ancestors", SPACE, "'self'">>

\* The header value of the "report-only-only scenario"
ReportOnlySample ==
  <<"default-src", SPACE, "'self'", SEMI, SPACE, "report-uri", SPACE, "/csp-report">>

\* A policy that restricts some resource types and names no script source
PartialPolicy ==
  <<"style-src", SPACE, "'self'", SEMI, SPACE, "img-src", SPACE, "'self'", SEMI, SPACE,
    "base-uri", SPACE, "'none'", SEMI, SPACE, "frame-ancestors", SPACE, "'none'">>

SeedPolicies == {<<>>, PartialPolicy, StrongPolicy}

\* The source lists the added script directives take
SourceLists ==
  { <<>>,
    <<"'none'">>,
    <<"'self'">>,
    <<"*">>,
    <<"'unsafe-hashes'">>,
    <<"'unsafe-inline'", SPACE, "'unsafe-eval'">>,
    <<"'unsafe-inline'", SPACE, "'nonce-Rw'">>,
    <<"'none'", SPACE, "'unsafe-inline'">> }

\* The directives that can be added to a policy, each a name and a value
DirectiveSegments ==
  ({"default-src", "script-src"} \X SourceLists)
  \cup { <<"Script-Src", <<>> >>,
         <<"Script-Src", <<"*">> >>,
         <<"Script-Src", <<"'none'">> >>,
         <<"object-src", <<>> >>,
         <<"object-src", <<"'none'">> >>,
         <<"object-src", <<"'self'">> >>,
         <<"form-action", <<"'none'">> >>,
         <<"upgrade-insecure-requests", <<>> >> }

\* The map of the "bypass detection exactness" scenario, as a policy
StrictDynamicPolicy ==
  <<"script-src", SPACE, "'self'", SPACE, "'strict-dynamic'", SPACE, "'unsafe-inline'">>

HostSeedPolicies == {<<>>, StrictDynamicPolicy}

\* Directives that name hosts, schemes and report endpoints
HostSegments ==
  { <<"script-src", <<>> >>,
    <<"script-src", <<"*">> >>,
    <<"script-src", <<"http:">> >>,
    <<"script-src", <<"https://cdn.example.com">> >>,
    <<"script-src", <<"https://ajax.googleapis.com">> >>,
    <<"script-src", <<"https://www.gstatic.com">> >>,
    <<"script-src", <<"https://cdnjs.cloudflare.com">> >>,
    <<"script-src", <<"https://unpkg.com", SPACE, "'unsafe-inline'">> >>,
    <<"default-src", <<>> >>,
    <<"default-src", <<"'none'">> >>,
    <<"default-src", <<"'self'">> >>,
    <<"default-src", <<"https://ajax.googleapis.com">> >>,
    <<"object-src", <<>> >>,
    <<"object-src", <<"'none'">> >>,
    <<"base-uri", <<>> >>,
    <<"base-uri", <<"'self'">> >>,
    <<"img-src", <<"data:", SPACE, "https://*.example.com">> >>,
    <<"style-src", <<>> >>,
    <<"style-src", <<"'unsafe-inline'">> >>,
    <<"style-src", <<"'self'", SPACE, "'nonce-Rw'">> >>,
    <<"report-uri", <<"/csp-report">> >>,
    <<"report-uri", <<"/other-report">> >>,
    <<"report-to", <<"csp-endpoint">> >> }

RawSymbols == {SEMI, SPACE, TAB, "Script-Src", "script-src", "'none'", "'nonce-Rw'"}

Header(name, value) == [name |-> <<name>>, value |-> value]

\* The header maps a scan can present for a site whose policy text is p: the
\* policy is served enforced, report-only or both; a site without a policy
\* text may also serve no CSP header at all
HeaderMaps(p) ==
  { <<Header("Content-Security-Policy", p)>>,
    <<Header("X-Frame-Options", <<"DENY">>), Header("content-security-policy", p)>>,
    <<Header("Content-Security-Policy-Report-Only", p)>>,
    <<Header("Content-Security-Policy", p),
      Header("Content-Security-Policy-Report-Only", ReportOnlySample)>> }
  \cup (IF p = <<>>
          THEN {<<>>, <<Header("X-Frame-Options", <<"DENY">>)>>}
          ELSE {})

(***************************************************************************)
(* The life of one scan.  The scan has a row in the scans table, a job in  *)
(* the queue (scanQueue, job id scan-<id>), the worker runs processScanJob *)
(* on the job, and the routes DELETE /:id, GET /:id and GET /:id/subscribe *)
(* are called for the id.  Every await of the code is a step.              *)
(***************************************************************************)
\* The clients that call GET /api/scans/:id/subscribe
Clients == {"c1", "c2"}

Terminal == {"completed", "failed"}

\* scanQueue, defaultJobOptions.attempts
attempts == 3

\* The fields the worker sets in its three updates of the row
processingFields == [status |-> "processing", hasResult |-> FALSE, hasError |-> FALSE]

\* Mutant: the completed update does not store the result
completedFields_noResult == [status |-> "completed", hasResult |-> FALSE, hasError |-> FALSE]

completedFields == [status |-> "completed", hasResult |-> TRUE, hasError |-> FALSE]

failedFields == [status |-> "failed", hasResult |-> FALSE, hasError |-> TRUE]

\* Mutant: the update inserts the row when there is none
update_upsert(r, f) == <<f>>

\* db.update(scans).set(f).where(eq(scans.id, scanId)): the row, if there is
\* one, gets the fields that are set; r is <<>> when the table has no row
update(r, f) ==
  IF r = <<>>
    THEN <<>>
    ELSE << [status |-> f.status,
             hasResult |-> r[1].hasResult \/ f.hasResult,
             hasError |-> r[1].hasError \/ f.hasError] >>

(***************************************************************************)
(* ShcheckService.executeScan: the promise and the handlers of the child   *)
(***************************************************************************)
NoExec ==
  [promise |-> "none", settled |-> 0, rejected |-> FALSE, timer |-> "none",
   child |-> "none", oversize |-> FALSE, errored |-> FALSE, code |-> -1, parses |-> FALSE]

\* resolve / reject of a promise: only the first call settles it
settle(e, outcome) ==
  IF e.promise = "pending" THEN [e EXCEPT !.promise = outcome, !.settled = @ + 1] ELSE e

clearTimeout(e) == IF e.timer = "armed" THEN [e EXCEPT !.timer = "cleared"] ELSE e

\* The call: validateTarget / validateScanOptions throw, or the child is
\* spawned and the timeout is set
executeScan(valid) ==
  IF valid
    THEN [NoExec EXCEPT !.promise = "pending", !.timer = "armed", !.child = "running"]
    ELSE [NoExec EXCEPT !.promise = "rejected", !.settled = 1]

\* The timeout callback
onTimeout(e) == settle([e EXCEPT !.timer = "fired", !.rejected = TRUE], "rejected")

\* python.stdout.on('data'): over says the output is now above maxBufferSize
onData(e, over) ==
  IF over
    THEN settle(clearTimeout([e EXCEPT !.oversize = TRUE, !.rejected = TRUE]), "rejected")
    ELSE e

\* python.on('error')
onError(e) == settle(clearTimeout([e EXCEPT !.errored = TRUE]), "rejected")

\* Mutant: the exit code is not looked at
exitOk_any(code) == TRUE

\* code !== 0 rejects
exitOk(code) == code = 0

\* python.on('close'): parses says parseOutput returns a result for stdout
onClose(e, code, parses) ==
  IF e.rejected
    THEN clearTimeout([e EXCEPT !.child = "closed", !.code = code, !.parses = parses])
  ELSE IF ~exitOk(code)
    THEN settle(clearTimeout([e EXCEPT !.child = "closed", !.code = code, !.parses = parses]),
                "rejected")
  ELSE settle(clearTimeout([e EXCEPT !.child = "closed", !.code = code, !.parses = parses]),
              IF parses THEN "resolved" ELSE "rejected")

(***************************************************************************)
(* Redis pub/sub: redisPub.publish and the one connection redisSub that    *)
(* all subscribe requests share                                            *)
(***************************************************************************)
\* messageHandler of client c runs with the message: resolveUpdate is the
\* resolve of the promise the generator awaits only while it waits
delivered(c) == subscribed /\ cpc[c] = "waiting"

\* publishScanUpdate(scanId, status): the message reaches the listeners of
\* redisSub if redisSub is subscribed to the channel
publishScanUpdate(status) ==
  /\ cpc' = [c \in Clients |-> IF delivered(c) THEN "data" ELSE cpc[c]]
  /\ cgot' = [c \in Clients |-> IF delivered(c) THEN status ELSE cgot[c]]

(***************************************************************************)
(* The states before any request                                           *)
(***************************************************************************)
NoJob == [state |-> "none", attemptsMade |-> 0, valid |-> TRUE]

\* No scan has been created
NoScan ==
  /\ row = <<>>
  /\ job = NoJob
  /\ wpc = "idle"
  /\ exec = NoExec
  /\ dpc = "idle"
  /\ getStatus = 0
  /\ cpc = [c \in Clients |-> "idle"]
  /\ cgot = [c \in Clients |-> "none"]
  /\ subscribed = FALSE

\* POST /api/scans has answered 201: the row is inserted with status
\* 'pending' and the job is in the queue; valid says the target is a URL that
\* validateTarget and validateScanOptions accept
Created(valid) ==
  /\ row = << [status |-> "pending", hasResult |-> FALSE, hasError |-> FALSE] >>
  /\ job = [state |-> "waiting", attemptsMade |-> 0, valid |-> valid]
  /\ wpc = "idle"
  /\ exec = NoExec
  /\ dpc = "idle"
  /\ getStatus = 0
  /\ cpc = [c \in Clients |-> "idle"]
  /\ cgot = [c \in Clients |-> "none"]
  /\ subscribed = FALSE

(***************************************************************************)
(* The worker: processScanJob, one step per await                          *)
(***************************************************************************)
\* The worker takes the job from the queue and calls processScanJob
TakeJob ==
  /\ wpc = "idle"
  /\ job.state = "waiting"
  /\ job' = [job EXCEPT !.state = "active"]
  /\ wpc' = "setProcessing"
  /\ UNCHANGED <<row, exec, dpc, getStatus, cpc, cgot, subscribed>>
  /\ UNCHANGED cspVars

\* await db.update ... status: 'processing'
SetProcessing ==
  /\ wpc = "setProcessing"
  /\ row' = update(row, processingFields)
  /\ wpc' = "progress10"
  /\ UNCHANGED <<job, exec, dpc, getStatus, cpc, cgot, subscribed>>
  /\ UNCHANGED cspVars

\* await job.updateProgress(n): throws when the job is no longer in the
\* queue, and the catch block is entered
UpdateProgress(at, next) ==
  /\ wpc = at
  /\ wpc' = IF job.state = "removed" THEN "setFailed" ELSE next
  /\ UNCHANGED <<row, job, exec, dpc, getStatus, cpc, cgot, subscribed>>
  /\ UNCHANGED cspVars

\* shcheckService.executeScan(target, options) is called
CallExecuteScan ==
  /\ wpc = "executeScan"
  /\ exec' = executeScan(job.valid)
  /\ wpc' = "awaitScan"
  /\ UNCHANGED <<row, job, dpc, getStatus, cpc, cgot, subscribed>>
  /\ UNCHANGED cspVars

\* The events of the child process and of the timer
Timeout ==
  /\ exec.timer = "armed"
  /\ exec' = onTimeout(exec)
  /\ UNCHANGED <<row, job, wpc, dpc, getStatus, cpc, cgot, subscribed>>
  /\ UNCHANGED cspVars

StdoutData ==
  /\ exec.child = "running"
  /\ ~exec.oversize
  /\ exec' = onData(exec, TRUE)
  /\ UNCHANGED <<row, job, wpc, dpc, getStatus, cpc, cgot, subscribed>>
  /\ UNCHANGED cspVars

ChildError ==
  /\ exec.child = "running"
  /\ ~exec.errored
  /\ exec' = onError(exec)
  /\ UNCHANGED <<row, job, wpc, dpc, getStatus, cpc, cgot, subscribed>>
  /\ UNCHANGED cspVars

ChildClose(code, parses) ==
  /\ exec.child = "running"
  /\ exec' = onClose(exec, code, parses)
  /\ UNCHANGED <<row, job, wpc, dpc, getStatus, cpc, cgot, subscribed>>
  /\ UNCHANGED cspVars

\* The await of executeScan returns the result or throws
AwaitScan ==
  /\ wpc = "awaitScan"
  /\ exec.promise \in {"resolved", "rejected"}
  /\ wpc' = IF exec.promise = "resolved" THEN "progress80" ELSE "setFailed"
  /\ UNCHANGED <<row, job, exec, dpc, getStatus, cpc, cgot, subscribed>>
  /\ UNCHANGED cspVars

\* await db.update ... status: 'completed', result
SetCompleted ==
  /\ wpc = "setCompleted"
  /\ row' = update(row, completedFields)
  /\ wpc' = "progress100"
  /\ UNCHANGED <<job, exec, dpc, getStatus, cpc, cgot, subscribed>>
  /\ UNCHANGED cspVars

\* await publishScanUpdate(scanId, 'completed', ...) and the return: the
\* queue marks the job completed
PublishCompleted ==
  /\ wpc = "publishCompleted"
  /\ publishScanUpdate("completed")
  /\ job' = IF job.state = "removed" THEN job ELSE [job EXCEPT !.state = "completed"]
  /\ wpc' = "idle"
  /\ UNCHANGED <<row, exec, dpc, getStatus, subscribed>>
  /\ UNCHANGED cspVars

\* catch: await db.update ... status: 'failed', error
SetFailed ==
  /\ wpc = "setFailed"
  /\ row' = update(row, failedFields)
  /\ wpc' = "publishFailed"
  /\ UNCHANGED <<job, exec, dpc, getStatus, cpc, cgot, subscribed>>
  /\ UNCHANGED cspVars

\* The job after processScanJob has thrown: the queue runs it again until it
\* has been tried `attempts` times
afterThrow(j) ==
  IF j.state = "removed"
    THEN j
    ELSE [j EXCEPT !.attemptsMade = @ + 1,
                   !.state = IF j.attemptsMade + 1 < attempts THEN "waiting" ELSE "failed"]

\* catch: await publishScanUpdate(scanId, 'failed', ...) and throw error
PublishFailed ==
  /\ wpc = "publishFailed"
  /\ publishScanUpdate("failed")
  /\ job' = afterThrow(job)
  /\ wpc' = "idle"
  /\ UNCHANGED <<row, exec, dpc, getStatus, subscribed>>
  /\ UNCHANGED cspVars

(***************************************************************************)
(* DELETE /api/scans/:id and GET /api/scans/:id                            *)
(***************************************************************************)
\* The select of the id: no row answers 404
DeleteSelect ==
  /\ dpc \in {"idle", "404", "500"}
  /\ dpc' = IF row = <<>> THEN "404" ELSE "removeScanJob"
  /\ UNCHANGED <<row, job, wpc, exec, getStatus, cpc, cgot, subscribed>>
  /\ UNCHANGED cspVars

\* await removeScanJob(params.id): the job, if the queue has it, is removed;
\* job.remove() of a job that a worker holds throws (answer 500) unless the
\* worker has lost its lock on the job
RemoveScanJob(locked) ==
  /\ dpc = "removeScanJob"
  /\ IF job.state \in {"none", "removed"}
       THEN dpc' = "delete" /\ job' = job
     ELSE IF job.state = "active" /\ locked
       THEN dpc' = "500" /\ job' = job
     ELSE dpc' = "delete" /\ job' = [job EXCEPT !.state = "removed"]
  /\ UNCHANGED <<row, wpc, exec, getStatus, cpc, cgot, subscribed>>
  /\ UNCHANGED cspVars

\* await db.delete(scans).where(eq(scans.id, params.id)); answer 204
DeleteRow ==
  /\ dpc = "delete"
  /\ row' = <<>>
  /\ dpc' = "204"
  /\ getStatus' = 0
  /\ UNCHANGED <<job, wpc, exec, cpc, cgot, subscribed>>
  /\ UNCHANGED cspVars

\* GET /api/scans/:id: 404 when the select finds no row
GetScan ==
  /\ getStatus' = IF row = <<>> THEN 404 ELSE 200
  /\ UNCHANGED <<row, job, wpc, exec, dpc, cpc, cgot, subscribed>>
  /\ UNCHANGED cspVars

(***************************************************************************)
(* GET /api/scans/:id/subscribe: the generator of one client               *)
(***************************************************************************)
\* The select and the first yield: the status read, or the 404 message
SubscribeSelect(c) ==
  /\ cpc[c] = "idle"
  /\ cpc' = [cpc EXCEPT ![c] = IF row = <<>> THEN "notFound" ELSE "initial"]
  /\ cgot' = [cgot EXCEPT ![c] = IF row = <<>> THEN "none" ELSE row[1].status]
  /\ UNCHANGED <<row, job, wpc, exec, dpc, getStatus, subscribed>>
  /\ UNCHANGED cspVars

\* The generator is resumed after the first yield: it returns when the
\* status read is terminal, else await redisSub.subscribe(channel),
\* redisSub.on('message', messageHandler) and the first promise of the loop
SubscribeRedis(c) ==
  /\ cpc[c] = "initial"
  /\ IF cgot[c] \in Terminal
       THEN cpc' = [cpc EXCEPT ![c] = "ended"] /\ subscribed' = subscribed
       ELSE cpc' = [cpc EXCEPT ![c] = "waiting"] /\ subscribed' = TRUE
  /\ UNCHANGED <<row, job, wpc, exec, dpc, getStatus, cgot>>
  /\ UNCHANGED cspVars

\* setTimeout(() => resolve(''), 30000) fires: yield {}
KeepAlive(c) ==
  /\ cpc[c] = "waiting"
  /\ cpc' = [cpc EXCEPT ![c] = "keepAlive"]
  /\ UNCHANGED <<row, job, wpc, exec, dpc, getStatus, cgot, subscribed>>
  /\ UNCHANGED cspVars

\* The generator is resumed after a yield of the loop: the next promise, or,
\* after a terminal update, the end of the loop and the finally block
\* (redisSub.unsubscribe(channel), redisSub.off)
Resume(c) ==
  /\ cpc[c] \in {"keepAlive", "data"}
  /\ IF cpc[c] = "data" /\ cgot[c] \in Terminal
       THEN cpc' = [cpc EXCEPT ![c] = "ended"] /\ subscribed' = FALSE
       ELSE cpc' = [cpc EXCEPT ![c] = "waiting"] /\ subscribed' = subscribed
  /\ UNCHANGED <<row, job, wpc, exec, dpc, getStatus, cgot>>
  /\ UNCHANGED cspVars

\* The client goes away while the generator is suspended at a yield: the
\* generator is returned; inside the loop the finally block runs
Disconnect(c) ==
  /\ cpc[c] \in {"initial", "keepAlive", "data"}
  /\ cpc' = [cpc EXCEPT ![c] = "gone"]
  /\ subscribed' = IF cpc[c] = "initial" THEN subscribed ELSE FALSE
  /\ UNCHANGED <<row, job, wpc, exec, dpc, getStatus, cgot>>
  /\ UNCHANGED cspVars

(***************************************************************************)
(* The specification of the life of a scan                                 *)
(***************************************************************************)
InitScans ==
  /\ policy = <<>>
  /\ nAdded = 0
  /\ pc = "input"
  /\ rawDirectives = <<>>
  /\ polEval = <<>>
  /\ headers = <<>>
  /\ result = <<>>
  /\ \/ NoScan
     \/ \E valid \in BOOLEAN : Created(valid)

NextScans ==
  \/ TakeJob
  \/ SetProcessing
  \/ UpdateProgress("progress10", "executeScan")
  \/ CallExecuteScan
  \/ Timeout
  \/ StdoutData
  \/ ChildError
  \/ \E code \in {0, 1}, parses \in BOOLEAN : ChildClose(code, parses)
  \/ AwaitScan
  \/ UpdateProgress("progress80", "setCompleted")
  \/ SetCompleted
  \/ UpdateProgress("progress100", "publishCompleted")
  \/ PublishCompleted
  \/ SetFailed
  \/ PublishFailed
  \/ DeleteSelect
  \/ \E locked \in BOOLEAN : RemoveScanJob(locked)
  \/ DeleteRow
  \/ GetScan
  \/ \E c \in Clients : SubscribeSelect(c)
  \/ \E c \in Clients : SubscribeRedis(c)
  \/ \E c \in Clients : KeepAlive(c)
  \/ \E c \in Clients : Resume(c)
  \/ \E c \in Clients : Disconnect(c)

SpecScans == InitScans /\ [][NextScans]_vars

\* The present headers shcheck can report for that site: the header maps
\* above, and maps whose CSP header names are written in other letter cases,
\* also twice
PresentMaps(p) ==
  HeaderMaps(p)
  \cup { <<Header("CONTENT-SECURITY-POLICY", p)>>,
         <<Header("CONTENT-SECURITY-POLICY", p), Header("content-security-policy", StrongPolicy)>>,
         <<Header("content-security-policy-report-only", ReportOnlySample),
           Header("Content-Security-Policy-Report-Only", p)>> }

(***************************************************************************)
(* The state machine: a policy string is put together, then one of the     *)
(* public methods of the evaluator is called on it.                        *)
(***************************************************************************)
Init ==
  /\ policy \in SeedPolicies
  /\ nAdded = 0
  /\ pc = "input"
  /\ rawDirectives = <<>>
  /\ polEval = <<>>
  /\ headers = <<>>
  /\ result = <<>>
  /\ NoScan

\* The site's policy gets one more directive
AddDirective(n, v) ==
  /\ pc = "input"
  /\ nAdded < MaxDirs
  /\ policy' = policy \o (IF policy = <<>> THEN <<>> ELSE <<SEMI, SPACE>>)
                      \o <<n>> \o (IF v = <<>> THEN <<>> ELSE <<SPACE>> \o v)
  /\ nAdded' = nAdded + 1
  /\ UNCHANGED <<pc, rawDirectives, polEval, headers, result>>
  /\ UNCHANGED scanVars

\* The policy text gets one more character or word
AppendSym(c) ==
  /\ pc = "input"
  /\ Len(policy) < MaxRawLen
  /\ policy' = Append(policy, c)
  /\ UNCHANGED <<nAdded, pc, rawDirectives, polEval, headers, result>>
  /\ UNCHANGED scanVars

\* cspEvaluator.evaluatePolicy(policy)
CallEvaluatePolicy ==
  /\ pc = "input"
  /\ rawDirectives' = parsePolicy(policy)
  /\ polEval' = <<evaluatePolicy(policy)>>
  /\ pc' = "evaluated"
  /\ UNCHANGED <<policy, nAdded, headers, result>>
  /\ UNCHANGED scanVars

\* cspEvaluator.evaluate(headers)
CallEvaluate(h) ==
  /\ pc = "input"
  /\ headers' = h
  /\ result' = <<evaluate(h)>>
  /\ pc' = "done"
  /\ UNCHANGED <<policy, nAdded, rawDirectives, polEval>>
  /\ UNCHANGED scanVars

\* shcheckService.parseOutput on the output of a scan of the site; result is
\* the cspEvaluation of the ScanResult
CallParseOutput(h) ==
  /\ pc = "input"
  /\ headers' = h
  /\ result' = parseOutput(h).cspEvaluation
  /\ pc' = "parsed"
  /\ UNCHANGED <<policy, nAdded, rawDirectives, polEval>>
  /\ UNCHANGED scanVars

Next ==
  \/ \E seg \in DirectiveSegments : AddDirective(seg[1], seg[2])
  \/ CallEvaluatePolicy
  \/ \E h \in HeaderMaps(policy) : CallEvaluate(h)

Spec == Init /\ [][Next]_vars

\* Policies written character by character
InitRaw ==
  /\ policy = <<>>
  /\ nAdded = 0
  /\ pc = "input"
  /\ rawDirectives = <<>>
  /\ polEval = <<>>
  /\ headers = <<>>
  /\ result = <<>>
  /\ NoScan

NextRaw ==
  \/ \E c \in RawSymbols : AppendSym(c)
  \/ CallEvaluatePolicy

SpecRaw == InitRaw /\ [][NextRaw]_vars

\* Policies that name hosts, schemes and report endpoints
InitHosts ==
  /\ policy \in HostSeedPolicies
  /\ nAdded = 0
  /\ pc = "input"
  /\ rawDirectives = <<>>
  /\ polEval = <<>>
  /\ headers = <<>>
  /\ result = <<>>
  /\ NoScan

NextHosts ==
  \/ \E seg \in HostSegments : AddDirective(seg[1], seg[2])
  \/ CallEvaluatePolicy
  \/ \E h \in HeaderMaps(policy) : CallEvaluate(h)
  \/ \E h \in PresentMaps(policy) : CallParseOutput(h)

SpecHosts == InitHosts /\ [][NextHosts]_vars

(***************************************************************************)
(* The claims.                                                             *)
(***************************************************************************)
\* The header map holds a key that equals the lower-case name ignoring case
HeaderPresent(hs, lower) == \E i \in 1..Len(hs) : toLowerCase(hs[i].name) = lower

\* C1: for every header map, evaluate returns overallEffectiveness 'none' if
\* and only if the map holds neither a Content-Security-Policy header nor a
\* Content-Security-Policy-Report-Only header.
C1_NoneIffBothAbsent ==
  pc = "done" =>
    (result[1].overallEffectiveness = "none"
       <=> /\ ~HeaderPresent(headers, <<"content-security-policy">>)
           /\ ~HeaderPresent(headers, <<"content-security-policy-report-only">>))

\* C2: the score of every PolicyEvaluation, and the overallScore of every
\* CSPEvaluation, is an integer between 0 and 100.
C2_ScoreBounds ==
  /\ pc = "evaluated" => polEval[1].score \in 0..100
  /\ pc = "done" => result[1].overallScore \in 0..100

\* C2 witness: a policy whose running total exceeds 100 has been scored
C2_Witness ==
  /\ pc = "evaluated"
  /\ runningScore(polEval[1].directives, rawDirectives) > 100
  /\ polEval[1].score = 100

OnlySeparators(p) == \A i \in 1..Len(p) : p[i] \in {SEMI, SPACE, TAB}

\* C3: for the empty string and for every string made only of semicolons and
\* whitespace, evaluatePolicy returns an empty directive list and the score 10.
C3_EmptyPolicyBaseScore ==
  (pc = "evaluated" /\ OnlySeparators(policy)) =>
    /\ polEval[1].directives = <<>>
    /\ polEval[1].score = 10

\* C3 witness: a policy of semicolons, spaces and tabs has been evaluated
C3_Witness ==
  /\ pc = "evaluated"
  /\ OnlySeparators(policy)
  /\ \E i, j, k \in 1..Len(policy) : policy[i] = SEMI /\ policy[j] = TAB /\ policy[k] = SPACE
  /\ polEval[1].score = 10

TierMatchesScore(e) ==
  /\ e.effectiveness = "strong" <=> e.score >= 80
  /\ e.effectiveness = "moderate" <=> (e.score >= 50 /\ e.score <= 79)
  /\ e.effectiveness = "weak" <=> e.score <= 49

\* C4: in every PolicyEvaluation the effectiveness is 'strong' iff the score is
\* at least 80, 'moderate' iff it is 50 to 79, 'weak' iff it is at most 49.
C4_TierFromScore ==
  /\ pc = "evaluated" => TierMatchesScore(polEval[1])
  /\ (pc = "done" /\ result[1].headers.csp # <<>>) => TierMatchesScore(result[1].headers.csp[1])

\* C4 witness: a policy with the boundary score 50 has been rated moderate
C4_Witness ==
  /\ pc = "evaluated"
  /\ polEval[1].score = 50
  /\ polEval[1].effectiveness = "moderate"

\* The number of the names that are keys of the directive map
KeysAmong(raw, names) == Cardinality({n \in names : hasKey(raw, <<n>>)})

\* C5: calculateScore adds 6 for each of default-src, script-src, style-src,
\* img-src, connect-src and 10 for each of object-src, base-uri,
\* frame-ancestors that is a key of the raw directive map, with an empty value
\* or not.
C5_PresenceBonusPerKey ==
  pc = "evaluated" =>
    presencePoints(rawDirectives) =
      6 * KeysAmong(rawDirectives,
                    {"default-src", "script-src", "style-src", "img-src", "connect-src"})
      + 10 * KeysAmong(rawDirectives, {"object-src", "base-uri", "frame-ancestors"})

\* The effective script source as C6 states it: by presence of the key
SourceByPresence(raw) ==
  IF hasKey(raw, <<"script-src">>) THEN get(raw, <<"script-src">>)[1]
  ELSE IF hasKey(raw, <<"default-src">>) THEN get(raw, <<"default-src">>)[1]
  ELSE <<>>

\* C6: the deductions are those of the value of script-src if script-src is a
\* key of the directive map, otherwise of the value of default-src if that is
\* a key, otherwise of the empty string; default-src is consulted only when
\* script-src is absent.
C6_DeductionsOnEffectiveSource ==
  pc = "evaluated" => deductions(rawDirectives) = deductionsFor(SourceByPresence(rawDirectives))

\* The bonus of one DirectiveEvaluation as C7 states it
BonusOf(d) ==
  IF d.isSecure /\ \E k \in 1..Len(d.sources) : d.sources[k] = <<"'none'">> THEN 5
  ELSE IF d.isSecure /\ \A k \in 1..Len(d.sources) : ~includes(d.sources[k], "unsafe") THEN 3
  ELSE 0

\* C7: every DirectiveEvaluation contributes one bonus to the running score:
\* 5 when it is secure and lists 'none', otherwise 3 when it is secure and no
\* source token contains "unsafe", otherwise 0; a directive whose value is
\* 'none' is secure and contributes 5.
C7_OneBonusPerDirective ==
  pc = "evaluated" =>
    LET ds == polEval[1].directives
    IN /\ runningScore(ds, rawDirectives)
            = 10 + presencePoints(rawDirectives)
                 + sumSeq([i \in 1..Len(ds) |-> BonusOf(ds[i])])
                 - deductions(rawDirectives)
       /\ \A i \in 1..Len(ds) :
            ds[i].value = <<"'none'">> =>
               ds[i].isSecure /\ safeConfigPoints(ds[i]) = 5

\* C7 witness: one evaluated policy holds a directive with the value 'none', a
\* secure directive listing 'none' next to 'unsafe-inline' (5), a secure
\* directive without 'none' (3) and a secure directive with an "unsafe" token (0)
C7_Witness ==
  /\ pc = "evaluated"
  /\ LET ds == polEval[1].directives
     IN /\ \E i \in 1..Len(ds) : ds[i].value = <<"'none'">> /\ safeConfigPoints(ds[i]) = 5
        /\ \E i \in 1..Len(ds) :
              /\ ds[i].sources = << <<"'none'">>, <<"'unsafe-inline'">> >>
              /\ safeConfigPoints(ds[i]) = 5
        /\ \E i \in 1..Len(ds) : ds[i].isSecure /\ safeConfigPoints(ds[i]) = 3
        /\ \E i \in 1..Len(ds) : ds[i].isSecure /\ safeConfigPoints(ds[i]) = 0

\* The non-empty trimmed segments of a policy, in order
Segments(p) ==
  LET segs == split(p, SEMI)
  IN SelectSeq([i \in 1..Len(segs) |-> trim(segs[i])], LAMBDA t : t # <<>>)

FirstSpace(seg) == CHOOSE i \in 1..Len(seg) : seg[i] = SPACE /\ \A j \in 1..(i - 1) : seg[j] # SPACE
HasSpace(seg) == \E i \in 1..Len(seg) : seg[i] = SPACE

\* The directive name and value of a segment as C8 states them
NameOf(seg) ==
  IF HasSpace(seg) THEN toLowerCase(SubSeq(seg, 1, FirstSpace(seg) - 1)) ELSE toLowerCase(seg)
ValueOf(seg) ==
  IF HasSpace(seg) THEN trim(SubSeq(seg, FirstSpace(seg) + 1, Len(seg))) ELSE <<>>

\* The symbol p[i] belongs to a directive name: in its segment no space lies
\* between the first symbol that is not whitespace and p[i]
InName(p, i) ==
  LET start == IF \E j \in 1..(i - 1) : p[j] = SEMI
                 THEN CHOOSE j \in 1..(i - 1) : p[j] = SEMI /\ \A k \in (j + 1)..(i - 1) : p[k] # SEMI
                 ELSE 0
  IN /\ ~IsWhite(p[i])
     /\ p[i] # SEMI
     /\ ~\E j \in (start + 1)..(i - 1) :
            p[j] = SPACE /\ \E k \in (start + 1)..(j - 1) : ~IsWhite(p[k])

\* The same text in another letter case
OtherCase(c) ==
  CASE c = "script-src" -> "Script-Src"
    [] c = "Script-Src" -> "SCRIPT-SRC"
    [] c = "default-src" -> "Default-Src"
    [] c = "frame-ancestors" -> "Frame-Ancestors"
    [] c = "'none'" -> "'NONE'"
    [] c = "'nonce-Rw'" -> "'NONCE-RW'"
    [] OTHER -> c

\* The policy with the letter case of its directive names changed
NamesInOtherCase(p) == [i \in 1..Len(p) |-> IF InName(p, i) THEN OtherCase(p[i]) ELSE p[i]]

\* C8: parsePolicy maps every non-empty trimmed segment of the policy to the
\* lower-cased text before its first space (the whole segment when it holds no
\* space) with, as value, the trimmed text after that space kept verbatim (the
\* empty string when it holds no space); the map has no other key, the empty
\* string parses to the empty map, and changing the letter case of directive
\* names does not change the map.
C8_ParsePolicy ==
  pc = "evaluated" =>
    LET segs == Segments(policy)
    IN /\ policy = <<>> => rawDirectives = <<>>
       /\ \A k \in 1..Len(rawDirectives) :
            \E i \in 1..Len(segs) : rawDirectives[k].name = NameOf(segs[i])
       /\ \A i \in 1..Len(segs) :
            /\ hasKey(rawDirectives, NameOf(segs[i]))
            /\ (\A j \in (i + 1)..Len(segs) : NameOf(segs[j]) # NameOf(segs[i]))
                 => get(rawDirectives, NameOf(segs[i])) = <<ValueOf(segs[i])>>
       /\ parsePolicy(NamesInOtherCase(policy)) = rawDirectives

\* C8 witness: a segment with leading whitespace, an upper-case name, two
\* spaces and a value with an upper-case letter has been parsed
C8_Witness ==
  /\ pc = "evaluated"
  /\ policy = <<TAB, "Script-Src", SPACE, SPACE, "'nonce-Rw'">>
  /\ rawDirectives = <<[name |-> <<"script-src">>, value |-> <<"'nonce-Rw'">>]>>

\* C9: the directive map holds one entry per distinct directive name (compared
\* ignoring case), in the order of the first occurrences of the names, each
\* with the value of the last occurrence of its name; evaluatePolicy returns
\* one DirectiveEvaluation per entry, in the same order.
C9_LastValueFirstPosition ==
  pc = "evaluated" =>
    LET segs == Segments(policy)
        n == Len(segs)
        firsts == SelectSeq([i \in 1..n |-> i],
                            LAMBDA i : \A j \in 1..(i - 1) : NameOf(segs[j]) # NameOf(segs[i]))
        lastOf(i) == CHOOSE j \in i..n :
                        /\ NameOf(segs[j]) = NameOf(segs[i])
                        /\ \A k \in (j + 1)..n : NameOf(segs[k]) # NameOf(segs[i])
        ds == polEval[1].directives
    IN /\ Len(rawDirectives) = Len(firsts)
       /\ \A k \in 1..Len(firsts) :
            /\ rawDirectives[k].name = NameOf(segs[firsts[k]])
            /\ rawDirectives[k].value = ValueOf(segs[lastOf(firsts[k])])
       /\ Len(ds) = Len(rawDirectives)
       /\ \A k \in 1..Len(ds) :
            ds[k].name = rawDirectives[k].name /\ ds[k].value = rawDirectives[k].value
       /\ \A k, l \in 1..Len(ds) : ds[k].name = ds[l].name => k = l

\* C9 witness: a name that occurs twice, in two letter cases and with two
\* values, has been parsed into an entry that is neither first nor last
C9_Witness ==
  /\ pc = "evaluated"
  /\ LET segs == Segments(policy)
     IN \E i, j \in 1..Len(segs) :
          /\ i < j
          /\ 1 < i
          /\ NameOf(segs[i]) = NameOf(segs[j])
          /\ segs[i][1] # segs[j][1]
          /\ ValueOf(segs[i]) # ValueOf(segs[j])
          /\ Len(rawDirectives) > i
          /\ rawDirectives[i].value = ValueOf(segs[j])

\* Some insecure-source pattern matches the token
MatchesInsecure(token) ==
  \E i \in 1..Len(INSECURE_SOURCES) : \E n \in INSECURE_SOURCES[i].pattern : includes(token, n)

\* C10: a DirectiveEvaluation is secure exactly when its source list holds the
\* token 'none', or is not empty and holds no token that matches an
\* insecure-source pattern (a token that draws a warning); an empty source
\* list is never secure.
C10_IsSecure ==
  pc = "evaluated" =>
    \A k \in 1..Len(polEval[1].directives) :
      LET d == polEval[1].directives[k]
      IN /\ d.isSecure <=>
              \/ \E i \in 1..Len(d.sources) : d.sources[i] = <<"'none'">>
              \/ /\ d.sources # <<>>
                 /\ \A i \in 1..Len(d.sources) : ~MatchesInsecure(d.sources[i])
         /\ d.sources = <<>> => ~d.isSecure
         /\ d.warnings = <<>> <=> \A i \in 1..Len(d.sources) : ~MatchesInsecure(d.sources[i])

\* C10 witness: one evaluated policy holds a directive with an empty source
\* list (not secure) and a directive that is secure by 'none' although
\* another of its tokens matches an insecure pattern
C10_Witness ==
  /\ pc = "evaluated"
  /\ LET ds == polEval[1].directives
     IN /\ \E k \in 1..Len(ds) : ds[k].sources = <<>> /\ ~ds[k].isSecure
        /\ \E k \in 1..Len(ds) :
              /\ ds[k].isSecure
              /\ ds[k].warnings # <<>>
              /\ \E i \in 1..Len(ds[k].sources) : ds[k].sources[i] = <<"'none'">>
        /\ \E k \in 1..Len(ds) : ds[k].isSecure /\ ds[k].warnings = <<>>

\* The number of places of the array that hold x
CountOf(a, x) == Cardinality({i \in 1..Len(a) : a[i] = x})

HttpWarning == <<"http: (without TLS)", " detected: ", "Allows unencrypted HTTP connections">>

\* C11: a source token draws the 'http: (without TLS)' warning only when it is
\* the bare token http: (one such warning per bare http: token of the
\* directive, none for any other token), and for the policy "script-src *" the
\* only insecure-source label matched is the wildcard label.
C11_HttpOnlyForBareToken ==
  pc = "evaluated" =>
    /\ \A k \in 1..Len(polEval[1].directives) :
         CountOf(polEval[1].directives[k].warnings, HttpWarning)
           = CountOf(polEval[1].directives[k].sources, <<"http:">>)
    /\ policy = <<"script-src", SPACE, "*">>
         => polEval[1].unsafeSources = << <<"'*' (wildcard)">> >>

\* The value of a directive when its name is a key of the map, else ''
ValueOrEmpty(raw, k) == IF hasKey(raw, <<k>>) THEN get(raw, <<k>>)[1] ELSE <<>>

\* The five known bypasses with their conditions as C12 states them: by the
\* presence of the directive names in the map
BypassesByPresence(raw) == <<
  [name |-> "JSONP Bypass",
   condition |-> \/ includes(SourceByPresence(raw), "googleapis.com")
                 \/ includes(SourceByPresence(raw), "gstatic.com")],
  [name |-> "Angular Template Injection",
   condition |-> \/ includes(ValueOrEmpty(raw, "script-src"), "cdnjs.cloudflare.com")
                 \/ includes(ValueOrEmpty(raw, "script-src"), "unpkg.com")],
  [name |-> "object-src Missing",
   condition |-> /\ ~hasKey(raw, <<"object-src">>)
                 /\ \/ ~hasKey(raw, <<"default-src">>)
                    \/ includes(ValueOrEmpty(raw, "default-src"), "'none'")],
  [name |-> "base-uri Missing",
   condition |-> ~hasKey(raw, <<"base-uri">>)],
  [name |-> "strict-dynamic with unsafe-inline",
   condition |-> /\ includes(ValueOrEmpty(raw, "script-src"), "'strict-dynamic'")
                 /\ includes(ValueOrEmpty(raw, "script-src"), "'unsafe-inline'")] >>

\* The names of the bypasses whose stated condition holds, in table order
BypassNamesByPresence(raw) ==
  LET hit == SelectSeq(BypassesByPresence(raw), LAMBDA b : b.condition)
  IN [k \in 1..Len(hit) |-> hit[k].name]

\* C12: for every directive map, detectBypasses returns the entries of the
\* five known bypasses whose condition holds and no other, in table order,
\* each formatted '<name>: <description>'; the conditions are on the presence
\* of the directives (object-src Missing iff object-src is absent and
\* default-src is absent or contains 'none'; base-uri Missing iff base-uri is
\* absent; JSONP on script-src, or default-src when script-src is absent).
C12_BypassesExactlyByCondition ==
  pc = "evaluated" =>
    /\ [k \in 1..Len(polEval[1].bypasses) |-> polEval[1].bypasses[k][1]]
         = BypassNamesByPresence(rawDirectives)
    /\ \A k \in 1..Len(polEval[1].bypasses) :
         \E i \in 1..5 :
            polEval[1].bypasses[k]
              = <<KNOWN_BYPASSES(rawDirectives)[i].name, ": ",
                  KNOWN_BYPASSES(rawDirectives)[i].description>>

\* The names of the listed bypasses
BypassNames(bypasses) == {bypasses[k][1] : k \in 1..Len(bypasses)}

StrictDynamicMap ==
  <<[name |-> <<"script-src">>,
     value |-> <<"'self'", SPACE, "'strict-dynamic'", SPACE, "'unsafe-inline'">>]>>

MissingFindingsFor(findings, dir) ==
  {k \in 1..Len(findings) : findings[k].message = <<"Missing ">> \o dir \o <<" directive">>}

\* C14: missingDirectives lists those of default-src, script-src, object-src,
\* base-uri, in that order, that are not keys of the parsed directive map; for
\* each of them there is one finding 'Missing <name> directive', of severity
\* high for default-src and script-src and medium for object-src and
\* base-uri, and there is none for a critical directive that occurs in the
\* policy.
C14_MissingExactlyAbsent ==
  pc = "evaluated" =>
    /\ polEval[1].missingDirectives
         = SelectSeq(criticalDirectives, LAMBDA dir : ~hasKey(rawDirectives, dir))
    /\ \A i \in 1..Len(criticalDirectives) :
         LET dir == criticalDirectives[i]
             at == MissingFindingsFor(polEval[1].findings, dir)
         IN /\ Cardinality(at) = IF hasKey(rawDirectives, dir) THEN 0 ELSE 1
            /\ \A k \in at :
                  polEval[1].findings[k].severity
                    = IF dir \in {<<"default-src">>, <<"script-src">>} THEN "high" ELSE "medium"

\* The place of the directive of that name in the list of evaluations
DirectiveIndex(ds, name) == CHOOSE i \in 1..Len(ds) : ds[i].name = name

\* The findings list is nD per-directive findings in directive order, then
\* one finding per missing directive, then one finding per bypass
FindingsInOrder(e) ==
  LET f == e.findings
      nM == Len(e.missingDirectives)
      nB == Len(e.bypasses)
      nD == Len(f) - nM - nB
  IN /\ nD >= 0
     /\ \A k \in 1..nD :
          /\ f[k].type \in {"warning", "success"}
          /\ f[k].directive # <<>>
          /\ \E i \in 1..Len(e.directives) : e.directives[i].name = f[k].directive[1]
     /\ \A k, l \in 1..nD :
          k < l => DirectiveIndex(e.directives, f[k].directive[1])
                     <= DirectiveIndex(e.directives, f[l].directive[1])
     /\ \A k \in 1..nM :
          /\ f[nD + k].directive = <<>>
          /\ f[nD + k].message = <<"Missing ">> \o e.missingDirectives[k] \o <<" directive">>
     /\ \A k \in 1..nB :
          f[nD + nM + k] = [type |-> "warning", severity |-> "medium",
                            message |-> e.bypasses[k],
                            directive |-> <<>>, recommendation |-> <<>>]

\* C15: in the findings of evaluatePolicy every per-directive finding
\* (warning or success, with its directive name, in directive order) comes
\* before every missing-directive finding, and every missing-directive
\* finding before every bypass finding; the bypass findings are one per entry
\* of bypasses, in the same order, of severity medium and with no directive.
C15_FindingsOrder ==
  pc = "evaluated" => FindingsInOrder(polEval[1])

\* C15 witness: an evaluated policy with findings of two directives, two
\* missing directives and two bypasses
C15_Witness ==
  /\ pc = "evaluated"
  /\ Len(polEval[1].missingDirectives) >= 2
  /\ Len(polEval[1].bypasses) >= 2
  /\ \E k, l \in 1..Len(polEval[1].findings) :
        /\ polEval[1].findings[k].directive # <<>>
        /\ polEval[1].findings[l].directive # <<>>
        /\ polEval[1].findings[k].directive # polEval[1].findings[l].directive
        /\ polEval[1].findings[k].type = "success"
        /\ polEval[1].findings[l].type = "warning"

\* The row of INSECURE_SOURCES that carries the label
PatternIndex(label) == CHOOSE j \in 1..Len(INSECURE_SOURCES) : <<INSECURE_SOURCES[j].name>> = label

\* The places (directive, token) where the pattern of row j matches
MatchPlaces(ds, j) ==
  UNION {{<<i, k>> : k \in {t \in 1..Len(ds[i].sources) :
                                 test(INSECURE_SOURCES[j].pattern, ds[i].sources[t])}} :
         i \in 1..Len(ds)}

\* Place a comes before place b when scanning directives, then tokens
PlaceBefore(a, b) == a[1] < b[1] \/ (a[1] = b[1] /\ a[2] < b[2])

\* The first place where the pattern of row j matches
FirstPlace(ds, j) ==
  CHOOSE a \in MatchPlaces(ds, j) : \A b \in MatchPlaces(ds, j) : a = b \/ PlaceBefore(a, b)

\* C16: unsafeSources holds no label twice; it holds a label if and only if
\* some source token of some directive matches the pattern of that label (the
\* directive then carries the '<label> detected' warning); the labels stand
\* in the order of their first matches, scanning the directives in order,
\* the tokens in order and the patterns in table order.
C16_UnsafeSourcesDedupFirstSeen ==
  pc = "evaluated" =>
    LET ds == polEval[1].directives
        u == polEval[1].unsafeSources
    IN /\ \A a, b \in 1..Len(u) : u[a] = u[b] => a = b
       /\ \A j \in 1..Len(INSECURE_SOURCES) :
            /\ arrayIncludes(u, <<INSECURE_SOURCES[j].name>>) <=> MatchPlaces(ds, j) # {}
            /\ arrayIncludes(u, <<INSECURE_SOURCES[j].name>>) <=>
                  \E i \in 1..Len(ds) : \E w \in 1..Len(ds[i].warnings) :
                     ds[i].warnings[w][1] = INSECURE_SOURCES[j].name
       /\ \A a, b \in 1..Len(u) :
            a < b =>
              LET pa == FirstPlace(ds, PatternIndex(u[a]))
                  pb == FirstPlace(ds, PatternIndex(u[b]))
              IN \/ PlaceBefore(pa, pb)
                 \/ (pa = pb /\ PatternIndex(u[a]) < PatternIndex(u[b]))

\* C16 witness: two labels listed against the table order, one of them
\* matched in two directives, and two labels drawn by one token
C16_Witness ==
  /\ pc = "evaluated"
  /\ LET ds == polEval[1].directives
         u == polEval[1].unsafeSources
     IN /\ \E a, b \in 1..Len(u) : a < b /\ PatternIndex(u[a]) > PatternIndex(u[b])
        /\ \E j \in 1..Len(INSECURE_SOURCES) :
              \E p, q \in MatchPlaces(ds, j) : p[1] # q[1]
        /\ \E j, l \in 1..Len(INSECURE_SOURCES) :
              j # l /\ MatchPlaces(ds, j) \cap MatchPlaces(ds, l) # {}

\* C17: when the header map holds neither the enforced nor the report-only
\* header (the empty map among them), evaluate returns overallScore 0,
\* overallEffectiveness 'none', no framework compatibility, no bypass
\* technique, and as recommendations the two entries 'Implement a
\* Content-Security-Policy header to prevent XSS attacks' and 'Start with
\* report-only mode: Content-Security-Policy-Report-Only', in that order and
\* nothing else.
C17_NoCspResult ==
  (/\ pc = "done"
   /\ ~HeaderPresent(headers, <<"content-security-policy">>)
   /\ ~HeaderPresent(headers, <<"content-security-policy-report-only">>)) =>
    /\ result[1].overallScore = 0
    /\ result[1].overallEffectiveness = "none"
    /\ result[1].frameworkCompatibility = <<>>
    /\ result[1].bypassTechniques = <<>>
    /\ result[1].headers = [csp |-> <<>>, reportOnly |-> <<>>]
    /\ result[1].recommendations
         = << <<"Implement a Content-Security-Policy header to prevent XSS attacks">>,
              <<"Start with report-only mode: Content-Security-Policy-Report-Only">> >>

\* C17 witness: evaluate has returned for the empty header map
C17_Witness ==
  /\ pc = "done"
  /\ headers = <<>>
  /\ Len(result[1].recommendations) = 2
  /\ result[1].overallEffectiveness = "none"

\* The value of the first header of the map with that lower-case name
HeaderValue(hs, lower) ==
  hs[CHOOSE i \in 1..Len(hs) :
        /\ toLowerCase(hs[i].name) = lower
        /\ \A j \in 1..(i - 1) : toLowerCase(hs[j].name) # lower].value

\* The segments of the policy that give the directive of that name a value
ValuedSegments(p, word) ==
  SelectSeq(Segments(p),
            LAMBDA seg : /\ HasSpace(seg)
                         /\ SubSeq(seg, 1, FirstSpace(seg) - 1) = <<word>>
                         /\ ValueOf(seg) # <<>>)

\* The trimmed value of the first occurrence of the directive, if there is one
FirstValue(p, word) ==
  IF ValuedSegments(p, word) = <<>> THEN <<>> ELSE <<ValueOf(Head(ValuedSegments(p, word)))>>

\* C18: for a header map with a Content-Security-Policy-Report-Only header
\* and no enforced header, evaluate returns a ReportOnlyEvaluation with
\* reportOnly true and reportUri / reportTo the trimmed value of the first
\* report-uri / report-to of the header ("/csp-report" for "default-src
\* 'self'; report-uri /csp-report"), no enforced PolicyEvaluation,
\* overallScore 0, and 'Consider enforcing CSP in addition to report-only
\* mode' among the recommendations.
C18_ReportOnlyOnly ==
  (/\ pc = "done"
   /\ HeaderPresent(headers, <<"content-security-policy-report-only">>)
   /\ ~HeaderPresent(headers, <<"content-security-policy">>)) =>
    LET value == HeaderValue(headers, <<"content-security-policy-report-only">>)
    IN /\ result[1].headers.reportOnly # <<>>
       /\ result[1].headers.reportOnly[1].reportOnly = TRUE
       /\ result[1].headers.reportOnly[1].reportUri = FirstValue(value, "report-uri")
       /\ result[1].headers.reportOnly[1].reportTo = FirstValue(value, "report-to")
       /\ value = ReportOnlySample
            => result[1].headers.reportOnly[1].reportUri = << <<"/csp-report">> >>
       /\ result[1].headers.csp = <<>>
       /\ result[1].overallScore = 0
       /\ arrayIncludes(result[1].recommendations,
                        <<"Consider enforcing CSP in addition to report-only mode">>)

\* The rules for an enforced policy as C19 lists them, each with its condition
RecommendationRules(e) == <<
  [text |-> "CSP policy is weak - avoid using unsafe-inline and wildcards",
   applies |-> e.score < 50],
  [text |-> "Add default-src directive as a fallback for unspecified resource types",
   applies |-> arrayIncludes(e.missingDirectives, <<"default-src">>)],
  [text |-> "Add script-src directive to control JavaScript execution",
   applies |-> arrayIncludes(e.missingDirectives, <<"script-src">>)],
  [text |-> "Add object-src 'none' to prevent plugin-based attacks",
   applies |-> arrayIncludes(e.missingDirectives, <<"object-src">>)],
  [text |-> "Add base-uri directive to prevent base tag hijacking",
   applies |-> arrayIncludes(e.missingDirectives, <<"base-uri">>)],
  [text |-> "Replace 'unsafe-inline' with nonce-based or hash-based CSP",
   applies |-> /\ arrayIncludes(e.unsafeSources, <<"'unsafe-inline'">>)
               /\ \A i \in 1..Len(e.policy) : "'nonce-" \notin Fragments(e.policy[i])],
  [text |-> "Consider adding upgrade-insecure-requests for HTTPS migration",
   applies |-> \A i \in 1..Len(e.policy) : "upgrade-insecure-requests" \notin Fragments(e.policy[i])],
  [text |-> "Add frame-ancestors directive to prevent clickjacking",
   applies |-> \A i \in 1..Len(e.policy) : "frame-ancestors" \notin Fragments(e.policy[i])],
  [text |-> "Add form-action directive to restrict form submissions",
   applies |-> \A i \in 1..Len(e.policy) : "form-action" \notin Fragments(e.policy[i])] >>

\* The texts of the rules that apply, in the order of the list
ApplicableRecommendations(e) ==
  LET hit == SelectSeq(RecommendationRules(e), LAMBDA r : r.applies)
  IN [k \in 1..Len(hit) |-> <<hit[k].text>>]

\* C19: when the result carries an enforced PolicyEvaluation, the
\* recommendations are those of the nine rules that apply, in the fixed order
\* weak policy (score < 50), add default-src, script-src, object-src 'none',
\* base-uri (each iff the name is in missingDirectives), nonce/hash-based CSP
\* (iff unsafeSources holds 'unsafe-inline' and the raw policy does not
\* contain 'nonce-), add upgrade-insecure-requests, frame-ancestors,
\* form-action (each iff the raw policy does not contain the name); none
\* appears twice and there is no other.
C19_RecommendationsInRuleOrder ==
  (pc = "done" /\ result[1].headers.csp # <<>>) =>
    /\ result[1].recommendations = ApplicableRecommendations(result[1].headers.csp[1])
    /\ \A a, b \in 1..Len(result[1].recommendations) :
         result[1].recommendations[a] = result[1].recommendations[b] => a = b

\* C19 witness: an enforced policy, served next to a report-only header, that
\* is weak, misses a critical directive and draws the nonce recommendation
C19_Witness ==
  /\ pc = "done"
  /\ result[1].headers.csp # <<>>
  /\ result[1].headers.reportOnly # <<>>
  /\ result[1].overallScore < 50
  /\ result[1].headers.csp[1].missingDirectives # <<>>
  /\ arrayIncludes(result[1].recommendations,
                   <<"Replace 'unsafe-inline' with nonce-based or hash-based CSP">>)
  /\ ~arrayIncludes(result[1].recommendations,
                    <<"Add script-src directive to control JavaScript execution">>)

\* The header map with the directive names of its enforced policy in another
\* letter case
EnforcedInOtherCase(hs) ==
  [i \in 1..Len(hs) |->
     IF toLowerCase(hs[i].name) = <<"content-security-policy">>
       THEN [name |-> hs[i].name, value |-> NamesInOtherCase(hs[i].value)]
       ELSE hs[i]]

\* What C20 compares of a CSPEvaluation that carries an enforced policy
ComparedFields(r) ==
  <<r.overallScore, r.overallEffectiveness, r.headers.csp[1].missingDirectives,
    r.bypassTechniques, r.frameworkCompatibility, r.recommendations>>

\* C20: directive names are compared ignoring case: evaluate returns the same
\* overallScore, overallEffectiveness, missingDirectives, bypassTechniques,
\* frameworkCompatibility and recommendations for the enforced policy and for
\* the same policy with its directive names in another letter case, and a
\* frame-ancestors directive that earns its presence bonus is not also
\* recommended as missing.
C20_NamesCaseInsensitive ==
  (pc = "done" /\ result[1].headers.csp # <<>>) =>
    /\ evaluate(EnforcedInOtherCase(headers)).headers.csp # <<>>
    /\ ComparedFields(evaluate(EnforcedInOtherCase(headers))) = ComparedFields(result[1])
    /\ truthy(get(parsePolicy(result[1].headers.csp[1].policy), <<"frame-ancestors">>))
         => ~arrayIncludes(result[1].recommendations,
                           <<"Add frame-ancestors directive to prevent clickjacking">>)

\* The token is found in the value of the directive, which is a key of the map
Contains(raw, k, x) == hasKey(raw, <<k>>) /\ includes(ValueOrEmpty(raw, k), x)

\* The three rows as C21 states them
FrameworkRows(raw) == <<
  [framework |-> "React",
   detected |-> /\ Contains(raw, "script-src", "'nonce-") \/ Contains(raw, "script-src", "'unsafe-inline'")
                /\ Contains(raw, "style-src", "'nonce-") \/ Contains(raw, "style-src", "'unsafe-inline'")],
  [framework |-> "Angular",
   detected |-> Contains(raw, "script-src", "'self'") \/ Contains(raw, "script-src", "'unsafe-eval'")],
  [framework |-> "Vue.js",
   detected |-> /\ Contains(raw, "script-src", "'self'") \/ Contains(raw, "script-src", "'unsafe-eval'")
                /\ Contains(raw, "style-src", "'self'") \/ Contains(raw, "style-src", "'unsafe-eval'")] >>

\* C21: detectFrameworks returns exactly three rows in the order React,
\* Angular, Vue.js; React is detected iff script-src and style-src are both
\* present and each contains 'nonce- or 'unsafe-inline', Angular iff
\* script-src contains 'self' or 'unsafe-eval', Vue.js iff script-src and
\* style-src each contain 'self' or 'unsafe-eval'; an absent directive never
\* counts as containing a token.
C21_FrameworkRows ==
  (pc = "done" /\ result[1].headers.csp # <<>>) =>
    LET rows == result[1].frameworkCompatibility
        raw == parsePolicy(result[1].headers.csp[1].policy)
    IN /\ Len(rows) = 3
       /\ \A i \in 1..3 :
            /\ rows[i].framework = FrameworkRows(raw)[i].framework
            /\ rows[i].detected = FrameworkRows(raw)[i].detected

\* C21 witness: a policy without style-src whose script-src holds
\* 'unsafe-inline' and 'self': Angular is detected, React and Vue.js are not
C21_Witness ==
  /\ pc = "done"
  /\ result[1].headers.csp # <<>>
  /\ ~hasKey(parsePolicy(result[1].headers.csp[1].policy), <<"style-src">>)
  /\ includes(ValueOrEmpty(parsePolicy(result[1].headers.csp[1].policy), "script-src"), "'unsafe-inline'")
  /\ ~result[1].frameworkCompatibility[1].detected
  /\ result[1].frameworkCompatibility[2].detected
  /\ ~result[1].frameworkCompatibility[3].detected

\* C22: in every CSPEvaluation returned by evaluate the overall fields
\* mirror the enforced evaluation: with an enforced PolicyEvaluation,
\* overallScore is its score, overallEffectiveness its effectiveness,
\* bypassTechniques its bypasses and frameworkCompatibility has exactly three
\* rows; without one, overallScore is 0 and bypassTechniques and
\* frameworkCompatibility are empty.
C22_OverallMirrorsEnforced ==
  pc = "done" =>
    IF result[1].headers.csp # <<>>
      THEN /\ result[1].overallScore = result[1].headers.csp[1].score
           /\ result[1].overallEffectiveness = result[1].headers.csp[1].effectiveness
           /\ result[1].bypassTechniques = result[1].headers.csp[1].bypasses
           /\ Len(result[1].frameworkCompatibility) = 3
      ELSE /\ result[1].overallScore = 0
           /\ result[1].bypassTechniques = <<>>
           /\ result[1].frameworkCompatibility = <<>>

\* C22 witness: an enforced evaluation, served next to a report-only header,
\* with a score above 0 and a bypass
C22_Witness ==
  /\ pc = "done"
  /\ result[1].headers.csp # <<>>
  /\ result[1].headers.reportOnly # <<>>
  /\ result[1].headers.csp[1].score > 0
  /\ result[1].headers.csp[1].bypasses # <<>>
  /\ result[1].bypassTechniques # <<>>

\* C24: CSP header detection is case-insensitive end to end: a parsed scan
\* result carries a cspEvaluation if and only if some present-header name
\* equals content-security-policy or content-security-policy-report-only
\* ignoring letter case, and then evaluate finds and evaluates that same
\* header, the first matching entry, whatever the case of its name.
C24_DetectionIgnoresCase ==
  pc = "parsed" =>
    /\ result # <<>> <=>
          \/ HeaderPresent(headers, <<"content-security-policy">>)
          \/ HeaderPresent(headers, <<"content-security-policy-report-only">>)
    /\ HeaderPresent(headers, <<"content-security-policy">>) =>
          /\ result[1].headers.csp # <<>>
          /\ result[1].headers.csp[1].policy = HeaderValue(headers, <<"content-security-policy">>)
    /\ HeaderPresent(headers, <<"content-security-policy-report-only">>) =>
          /\ result[1].headers.reportOnly # <<>>
          /\ result[1].headers.reportOnly[1].reportUri
               = FirstValue(HeaderValue(headers, <<"content-security-policy-report-only">>), "report-uri")

\* C25: after DELETE /api/scans/:id has answered 204 for a scan, the table
\* has no row for the id ever again and every later GET of the id answers
\* 404, also when the worker is still processing or retrying the job of the
\* scan at the time of the deletion; DELETE of an id that does not exist
\* answers 404 and changes nothing.
C25_DeletedStaysDeleted ==
  /\ dpc = "204" => row = <<>> /\ getStatus \in {0, 404}
  /\ dpc = "404" => row = <<>> /\ job = NoJob /\ wpc = "idle"

\* C25 witness: the DELETE has answered 204 while the worker is past an
\* update of the row in processScanJob, and a GET since has answered 404
C25_Witness ==
  /\ dpc = "204"
  /\ wpc \in {"progress10", "progress100", "publishFailed"}
  /\ getStatus = 404

\* C26: the statuses 'completed' and 'failed' are terminal: once the row of
\* the scan has one of them, no later step (a retry of the job by the queue
\* included) changes the status of the row again.
C26_TerminalStatusStays ==
  [][(row # <<>> /\ row[1].status \in Terminal /\ row' # <<>>)
       => row'[1].status = row[1].status]_vars

\* The worker has nothing left to do for the scan and the queue will not run
\* the job again
WorkerDone == wpc = "idle" /\ job.state \in {"completed", "failed"}

\* C27: a client that subscribed while the scan was pending or processing
\* gets an update with the terminal status the scan reaches, and its stream
\* ends: when the scan is terminal and the worker has published its last
\* update, no stream is still waiting in its loop for an update.
C27_SubscriberGetsTerminal ==
  (WorkerDone /\ row # <<>> /\ row[1].status \in Terminal) =>
    \A c \in Clients :
      ~(cpc[c] \in {"waiting", "keepAlive"} /\ cgot[c] \notin Terminal)

\* C28: executeScan settles exactly once; it resolves only when the child
\* has closed with exit code 0, its stdout parses and neither the timeout nor
\* the size limit has fired; an invalid target or invalid options, a
\* timeout, oversized output, a spawn error and a close with another code or
\* unparsable output reject it, and after a timeout or size-limit rejection
\* a later close does not resolve it.
C28_SettlesOnce ==
  /\ exec.settled = (IF exec.promise \in {"resolved", "rejected"} THEN 1 ELSE 0)
  /\ exec.promise = "resolved" =>
        /\ exec.child = "closed" /\ exec.code = 0 /\ exec.parses
        /\ exec.timer # "fired" /\ ~exec.oversize
  /\ (exec.timer = "fired" \/ exec.oversize \/ exec.errored) => exec.promise = "rejected"
  /\ exec.child = "closed" =>
        exec.promise = (IF exec.code = 0 /\ exec.parses /\ exec.timer # "fired"
                           /\ ~exec.oversize /\ ~exec.errored
                          THEN "resolved" ELSE "rejected")
  /\ (wpc = "awaitScan" /\ ~job.valid) => exec.promise = "rejected"

\* C28 witness: the timeout has rejected the call and the child closes
\* afterwards with exit code 0 and output that parses
C28_Witness ==
  /\ exec.timer = "fired"
  /\ exec.child = "closed"
  /\ exec.code = 0
  /\ exec.parses
  /\ exec.promise = "rejected"

C30_SubscriptionsIndependent ==
  [][\A c \in Clients :
       (wpc \in {"publishCompleted", "publishFailed"} /\ wpc' = "idle" /\ cpc[c] = "waiting")
         => (cpc'[c] = "data" /\ cgot'[c] \in Terminal)]_vars

====
